---------------------------- MODULE Spec2Model ----------------------------
(***************************************************************************)
(* Model of the nginx-check plugin: executeCheck (main.go) calls           *)
(* nginx.GetMetrics, which fetches the stub-status page (loadData) and     *)
(* parses it into seven metric families (extractMetrics), and then prints  *)
(* the families (printMetrics).                                            *)
(*                                                                         *)
(* Text is modelled as TLA+ strings, read one character at a time.         *)
(* Unsigned 64-bit values and float64 values are modelled exactly, as      *)
(* normalised decimal strings, because they do not fit TLC's integers.     *)
(***************************************************************************)
EXTENDS Integers, Sequences, FiniteSets, TLC

(***************************************************************************)
(* Characters and strings                                                  *)
(***************************************************************************)
Ch(s, i) == SubSeq(s, i, i)

DigitChars == "0123456789"

IsDigit(c) == c \in {"0", "1", "2", "3", "4", "5", "6", "7", "8", "9"}

DigitVal(c) ==
    CASE c = "0" -> 0 [] c = "1" -> 1 [] c = "2" -> 2 [] c = "3" -> 3 [] c = "4" -> 4
      [] c = "5" -> 5 [] c = "6" -> 6 [] c = "7" -> 7 [] c = "8" -> 8 [] c = "9" -> 9

DigitChar(d) == Ch(DigitChars, d + 1)

\* unicode.IsSpace, restricted to the characters a TLA+ string can hold (no
\* vertical tab, U+0085 or U+00A0)
IsSpace(c) == c \in {" ", "\t", "\n", "\r", "\f"}

\* the class \s of Go's regexp syntax: [\t\n\f\r ]
IsReSpace(c) == c \in {" ", "\t", "\n", "\f", "\r"}

RECURSIVE TrimLeft(_)
TrimLeft(s) ==
    IF s # "" /\ IsSpace(Ch(s, 1)) THEN TrimLeft(SubSeq(s, 2, Len(s))) ELSE s

RECURSIVE TrimRight(_)
TrimRight(s) ==
    IF s # "" /\ IsSpace(Ch(s, Len(s))) THEN TrimRight(SubSeq(s, 1, Len(s) - 1)) ELSE s

\* strings.TrimSpace
TrimSpace(s) == TrimRight(TrimLeft(s))

HasPrefixAt(s, i, p) == i + Len(p) - 1 <= Len(s) /\ SubSeq(s, i, i + Len(p) - 1) = p

\* bufio.ScanLines: dropCR
DropCR(s) == IF s # "" /\ Ch(s, Len(s)) = "\r" THEN SubSeq(s, 1, Len(s) - 1) ELSE s

\* index of the first "\n" at or after i, 0 when there is none
RECURSIVE IndexNL(_, _)
IndexNL(s, i) ==
    IF i > Len(s) THEN 0
    ELSE IF Ch(s, i) = "\n" THEN i
    ELSE IndexNL(s, i + 1)

\* The tokens bufio.Scanner yields with the default split function ScanLines,
\* for lines shorter than bufio.MaxScanTokenSize (64 KiB).  A longer line ends
\* the scan with an error extractMetrics does not look at; no payload here has
\* one.
RECURSIVE ScanLines(_)
ScanLines(content) ==
    IF content = "" THEN << >>
    ELSE LET nl == IndexNL(content, 1) IN
         IF nl = 0 THEN << DropCR(content) >>
         ELSE << DropCR(SubSeq(content, 1, nl - 1)) >>
              \o ScanLines(SubSeq(content, nl + 1, Len(content)))

(***************************************************************************)
(* Exact arithmetic on decimal strings ("0", "33", "18446744073709551615") *)
(***************************************************************************)
RECURSIVE StripZeros(_)
StripZeros(a) ==
    IF Len(a) > 1 /\ Ch(a, 1) = "0" THEN StripZeros(SubSeq(a, 2, Len(a))) ELSE a

Norm(a) == IF a = "" THEN "0" ELSE StripZeros(a)

Front(a) == SubSeq(a, 1, Len(a) - 1)

LastVal(a) == DigitVal(Ch(a, Len(a)))

\* a * m + c for small m and c
RECURSIVE MulAdd(_, _, _)
MulAdd(a, m, c) ==
    IF a = "" THEN (IF c = 0 THEN "" ELSE MulAdd("", m, c \div 10) \o DigitChar(c % 10))
    ELSE LET s == LastVal(a) * m + c IN
         MulAdd(Front(a), m, s \div 10) \o DigitChar(s % 10)

MulSmall(a, m) == Norm(MulAdd(a, m, 0))

AddSmall(a, k) == Norm(MulAdd(a, 1, k))

\* a - b for a small b <= a
RECURSIVE SubDigits(_, _)
SubDigits(a, b) ==
    IF b = 0 THEN a
    ELSE LET s == LastVal(a) - b
             t == IF s >= 0 THEN 0 ELSE (9 - s) \div 10
         IN  SubDigits(Front(a), t) \o DigitChar(s + 10 * t)

SubSmall(a, b) == Norm(SubDigits(a, b))

\* a mod m for a small m
RECURSIVE ModFrom(_, _, _)
ModFrom(a, m, r) ==
    IF a = "" THEN r ELSE ModFrom(SubSeq(a, 2, Len(a)), m, (r * 10 + DigitVal(Ch(a, 1))) % m)

ModSmall(a, m) == ModFrom(a, m, 0)

RECURSIVE LexLess(_, _)
LexLess(a, b) ==
    IF a = "" THEN FALSE
    ELSE LET x == DigitVal(Ch(a, 1))
             y == DigitVal(Ch(b, 1))
         IN  IF x # y THEN x < y
             ELSE LexLess(SubSeq(a, 2, Len(a)), SubSeq(b, 2, Len(b)))

\* a < b on normalised decimal strings
Less(a, b) == Len(a) < Len(b) \/ (Len(a) = Len(b) /\ LexLess(a, b))

LessEq(a, b) == a = b \/ Less(a, b)

(***************************************************************************)
(* strconv.ParseUint(s, 10, 64), for the non-empty digit strings the       *)
(* patterns capture                                                        *)
(***************************************************************************)
\* maxVal: 1<<64 - 1
MaxUint64 == "18446744073709551615"

\* cutoff: maxUint64/10 + 1
Cutoff == "1844674407370955162"

\* (*strconv.NumError).Error()
NumError(s, what) == "strconv.ParseUint: parsing \"" \o s \o "\": " \o what

\* the loop over the digits: n is the value so far, i the next character
RECURSIVE ParseDigits(_, _, _)
ParseDigits(s, i, n) ==
    IF i > Len(s) THEN [val |-> n, err |-> ""]
    ELSE IF ~IsDigit(Ch(s, i)) THEN [val |-> "0", err |-> NumError(s, "invalid syntax")]
    ELSE IF ~Less(n, Cutoff) THEN [val |-> MaxUint64, err |-> NumError(s, "value out of range")]
    ELSE LET n1 == AddSmall(MulSmall(n, 10), DigitVal(Ch(s, i))) IN
         IF Less(MaxUint64, n1)
         THEN [val |-> MaxUint64, err |-> NumError(s, "value out of range")]
         ELSE ParseDigits(s, i + 1, n1)

\* ParseUint with the slip of saturating at 1<<64 - 1 without an error
ParseUint_saturating(s) ==
    LET r == ParseDigits(s, 1, "0") IN
    [val |-> r.val, err |-> IF r.val = MaxUint64 THEN "" ELSE r.err]

\* val is the value, err the text of the error ("" for nil)
ParseUint(s) ==
    IF s = "" THEN [val |-> "0", err |-> NumError(s, "invalid syntax")]
    ELSE ParseDigits(s, 1, "0")

(***************************************************************************)
(* float64(value) of a uint64: the nearest float64, ties to even.  Below   *)
(* 2^53 every integer is a float64; from 2^k (k >= 53) up to 2^(k+1) the   *)
(* float64 values are the multiples of 2^(k-52).                           *)
(***************************************************************************)
TwoTo53 == "9007199254740992"

\* 2^54 .. 2^64: the upper ends of the ranges whose spacing is 2, 4, .. 2048
UpperEnds ==
    << "18014398509481984", "36028797018963968", "72057594037927936",
       "144115188075855872", "288230376151711744", "576460752303423488",
       "1152921504606846976", "2305843009213693952", "4611686018427387904",
       "9223372036854775808", "18446744073709551616" >>

RECURSIVE SmallPow2(_)
SmallPow2(k) == IF k = 0 THEN 1 ELSE 2 * SmallPow2(k - 1)

\* the spacing of the float64 values around v, for v >= 2^53
Spacing(v) ==
    SmallPow2(CHOOSE k \in 1..Len(UpperEnds) :
                 /\ Less(v, UpperEnds[k])
                 /\ \A j \in 1..(k - 1) : ~Less(v, UpperEnds[j]))

Float64(v) ==
    IF LessEq(v, TwoTo53) THEN v
    ELSE LET u    == Spacing(v)
             r    == ModSmall(v, u)
             odd  == ModSmall(v, 2 * u) >= u
             down == SubSmall(v, r)
             up   == AddSmall(down, u)
         IN  IF 2 * r < u THEN down
             ELSE IF 2 * r > u THEN up
             ELSE IF odd THEN up ELSE down

(***************************************************************************)
(* The three anchored patterns.  A pattern is a sequence of items: a       *)
(* literal text, \s+ or the capturing group (\d+).  The classes \s and \d  *)
(* are disjoint and no literal starts with a character of either, so the   *)
(* leftmost greedy match is the only candidate.                            *)
(***************************************************************************)
Lit(text) == [kind |-> "lit", text |-> text]

Spaces == [kind |-> "spaces", text |-> ""]

Digits == [kind |-> "digits", text |-> ""]

\* ^Active connections: (\d+)$
line1Regex == << Lit("Active connections: "), Digits >>

\* ^(\d+)\s+(\d+)\s+(\d+)$
line3Regex == << Digits, Spaces, Digits, Spaces, Digits >>

\* ^Reading:\s+(\d+)\s+Writing:\s+(\d+)\s+Waiting:\s+(\d+)$
line4Regex ==
    << Lit("Reading:"), Spaces, Digits, Spaces, Lit("Writing:"), Spaces, Digits,
       Spaces, Lit("Waiting:"), Spaces, Digits >>

\* the first index at or after i whose character is not a digit
RECURSIVE EndOfDigits(_, _)
EndOfDigits(s, i) ==
    IF i <= Len(s) /\ IsDigit(Ch(s, i)) THEN EndOfDigits(s, i + 1) ELSE i

\* the first index at or after i whose character is not of the class \s
RECURSIVE EndOfSpaces(_, _)
EndOfSpaces(s, i) ==
    IF i <= Len(s) /\ IsReSpace(Ch(s, i)) THEN EndOfSpaces(s, i + 1) ELSE i

\* items k.. of the pattern against s from index i; caps are the groups so far.
\* The result is the whole match followed by the groups, or << >> (nil).
RECURSIVE MatchFrom(_, _, _, _, _)
MatchFrom(re, k, s, i, caps) ==
    IF k > Len(re) THEN (IF i = Len(s) + 1 THEN << s >> \o caps ELSE << >>)
    ELSE IF re[k].kind = "lit" THEN
         IF HasPrefixAt(s, i, re[k].text)
         THEN MatchFrom(re, k + 1, s, i + Len(re[k].text), caps)
         ELSE << >>
    ELSE IF re[k].kind = "spaces" THEN
         LET j == EndOfSpaces(s, i) IN
         IF j > i THEN MatchFrom(re, k + 1, s, j, caps) ELSE << >>
    ELSE LET j == EndOfDigits(s, i) IN
         IF j > i THEN MatchFrom(re, k + 1, s, j, Append(caps, SubSeq(s, i, j - 1)))
         ELSE << >>

\* (*regexp.Regexp).FindStringSubmatch
FindStringSubmatch(re, s) == MatchFrom(re, 1, s, 1, << >>)

\* strconv.Itoa, as %d formats a small non-negative int
RECURSIVE Itoa(_)
Itoa(n) == IF n < 10 THEN DigitChar(n) ELSE Itoa(n \div 10) \o DigitChar(n % 10)

(***************************************************************************)
(* Metric families (dto.MetricFamily) and their construction               *)
(***************************************************************************)
labelHost == "host"

labelPort == "port"

COUNTER == "COUNTER"

GAUGE == "GAUGE"

\* a nil pointer, slice or error
Nil == << >>

NoError == ""

\* the map literal metricHelp is initialised with
metricHelpLiteral ==
    [n \in {"nginx_active", "nginx_handled", "nginx_accepts", "nginx_requests",
            "nginx_reading", "nginx_writing", "nginx_waiting"} |->
        CASE n = "nginx_active"   -> [help |-> "number of active connections", metricType |-> GAUGE]
          [] n = "nginx_handled"  -> [help |-> "handled connections", metricType |-> COUNTER]
          [] n = "nginx_accepts"  -> [help |-> "accepted connections", metricType |-> COUNTER]
          [] n = "nginx_requests" -> [help |-> "handled requests", metricType |-> COUNTER]
          [] n = "nginx_reading"  -> [help |-> "reading requests", metricType |-> GAUGE]
          [] n = "nginx_writing"  -> [help |-> "writing requests", metricType |-> GAUGE]
          [] n = "nginx_waiting"  -> [help |-> "keep-alive connections", metricType |-> GAUGE]]

\* The package-level variable metricHelp: a Go map, which any statement of the
\* package could write.  The functions below read it in the current state.
VARIABLE metricHelp

\* Labels with the slip of the port label first
Labels_portFirst(host, port) ==
    << [Name |-> labelPort, Value |-> port], [Name |-> labelHost, Value |-> host] >>

Labels(host, port) ==
    << [Name |-> labelHost, Value |-> host], [Name |-> labelPort, Value |-> port] >>

addNewCounterMetric(family, value, timestampMS, host, port) ==
    [family EXCEPT !.Metric =
        Append(@, [Label |-> Labels(host, port), Counter |-> << value >>,
                   Gauge |-> Nil, TimestampMs |-> timestampMS])]

addNewGaugeMetric(family, value, timestampMS, host, port) ==
    [family EXCEPT !.Metric =
        Append(@, [Label |-> Labels(host, port), Counter |-> Nil,
                   Gauge |-> << value >>, TimestampMs |-> timestampMS])]

\* addNewMetric with the slip of putting the new family first
addNewMetric_prepend(metrics, metricType, value, timestampMS, hostname, port) ==
    LET metricDesc == metricHelp[metricType]
        family == [Name |-> metricType, Help |-> metricDesc.help,
                   Type |-> metricDesc.metricType, Metric |-> << >>]
    IN  << IF metricDesc.metricType = COUNTER
           THEN addNewCounterMetric(family, Float64(value), timestampMS, hostname, port)
           ELSE addNewGaugeMetric(family, Float64(value), timestampMS, hostname, port) >>
        \o metrics

addNewMetric(metrics, metricType, value, timestampMS, hostname, port) ==
    IF metricType \notin DOMAIN metricHelp THEN metrics
    ELSE LET metricDesc == metricHelp[metricType]
             family == [Name |-> metricType, Help |-> metricDesc.help,
                        Type |-> metricDesc.metricType, Metric |-> << >>]
         IN  Append(metrics,
                    IF metricDesc.metricType = COUNTER
                    THEN addNewCounterMetric(family, Float64(value), timestampMS, hostname, port)
                    ELSE IF metricDesc.metricType = GAUGE
                    THEN addNewGaugeMetric(family, Float64(value), timestampMS, hostname, port)
                    ELSE family)

(***************************************************************************)
(* extractMetrics, one step per statement group.  A frame holds the        *)
(* parameters, the locals and, once pc = "done", the returned pair.        *)
(***************************************************************************)
IdleFrame ==
    [pc |-> "idle", content |-> "", hostname |-> "", port |-> "", metrics |-> << >>,
     nowMS |-> 0, lines |-> << >>, line1Match |-> << >>, line3Match |-> << >>,
     line4Match |-> << >>, retMetrics |-> Nil, retErr |-> NoError]

\* the call extractMetrics(content, hostname, port)
CallExtract(content, hostname, port) ==
    [IdleFrame EXCEPT !.pc = "entry", !.content = content,
                      !.hostname = hostname, !.port = port]

\* Fail with the slip of returning the list built so far
Fail_partial(st, msg) == [st EXCEPT !.pc = "done", !.retMetrics = st.metrics, !.retErr = msg]

\* return nil, fmt.Errorf(...)
Fail(st, msg) == [st EXCEPT !.pc = "done", !.retMetrics = Nil, !.retErr = msg]

\* metrics := make(...); nowMS := nowFn().UnixMilli()
exEntry(st, now) == [st EXCEPT !.metrics = << >>, !.nowMS = now, !.pc = "scan"]

RECURSIVE NonBlank(_)
NonBlank(tokens) ==
    IF tokens = << >> THEN << >>
    ELSE LET line == TrimSpace(Head(tokens)) IN
         (IF line # "" THEN << line >> ELSE << >>) \o NonBlank(Tail(tokens))

\* exScan with the slip of dropping empty lines only, without trimming
exScan_untrimmed(st) ==
    [st EXCEPT !.lines = SelectSeq(ScanLines(st.content), LAMBDA l : l # ""), !.pc = "count"]

\* the scanner loop
exScan(st) == [st EXCEPT !.lines = NonBlank(ScanLines(st.content)), !.pc = "count"]

\* exCount with the slip of < for !=
exCount_lessThan(st) ==
    IF Len(st.lines) < 4
    THEN Fail(st, "4 output lines are expected, got " \o Itoa(Len(st.lines)))
    ELSE [st EXCEPT !.pc = "line1"]

exCount(st) ==
    IF Len(st.lines) # 4
    THEN Fail(st, "4 output lines are expected, got " \o Itoa(Len(st.lines)))
    ELSE [st EXCEPT !.pc = "line1"]

\* exLine1 with the slip of looking at line 3 before line 1
exLine1_line3First(st) ==
    LET line1Match == FindStringSubmatch(line1Regex, st.lines[1]) IN
    IF Len(FindStringSubmatch(line3Regex, st.lines[3])) # 4
    THEN Fail(st, "unexpected input for line 3: " \o st.lines[1])
    ELSE IF Len(line1Match) # 2
    THEN Fail(st, "unexpected input for line 1: " \o st.lines[1])
    ELSE [st EXCEPT !.line1Match = line1Match, !.pc = "active"]

exLine1(st) ==
    LET line1Match == FindStringSubmatch(line1Regex, st.lines[1]) IN
    IF Len(line1Match) # 2
    THEN Fail(st, "unexpected input for line 1: " \o st.lines[1])
    ELSE [st EXCEPT !.line1Match = line1Match, !.pc = "active"]

\* v, err := strconv.ParseUint(text, 10, 64); if err != nil { return nil, ... };
\* metrics = addNewMetric(metrics, name, v, nowMS, hostname, port)
Field(st, text, what, name, next) ==
    LET r == ParseUint(text) IN
    IF r.err # NoError
    THEN Fail(st, what \o ": " \o r.err)
    ELSE [st EXCEPT !.metrics = addNewMetric(@, name, r.val, st.nowMS, st.hostname, st.port),
                    !.pc = next]

exActive(st) == Field(st, st.line1Match[2], "invalid number of connections", "nginx_active", "line3")

\* exLine3 with the slip of insisting on the header in line 2
exLine3_line2Checked(st) ==
    LET line3Match == FindStringSubmatch(line3Regex, st.lines[3]) IN
    IF st.lines[2] # "server accepts handled requests"
    THEN Fail(st, "unexpected input for line 2: " \o st.lines[1])
    ELSE IF Len(line3Match) # 4
    THEN Fail(st, "unexpected input for line 3: " \o st.lines[1])
    ELSE [st EXCEPT !.line3Match = line3Match, !.pc = "accepts"]

exLine3(st) ==
    LET line3Match == FindStringSubmatch(line3Regex, st.lines[3]) IN
    IF Len(line3Match) # 4
    THEN Fail(st, "unexpected input for line 3: " \o st.lines[1])
    ELSE [st EXCEPT !.line3Match = line3Match, !.pc = "accepts"]

exAccepts(st) == Field(st, st.line3Match[2], "invalid accepts value", "nginx_accepts", "handled")

\* exHandled with the slip of reading the first group again
exHandled_firstGroup(st) ==
    Field(st, st.line3Match[2], "invalid handled value", "nginx_handled", "requests")

exHandled(st) == Field(st, st.line3Match[3], "invalid handled value", "nginx_handled", "requests")

exRequests(st) == Field(st, st.line3Match[4], "invalid requests value", "nginx_requests", "line4")

\* exLine4 with the slip of a copied message
exLine4_copiedMessage(st) ==
    LET line4Match == FindStringSubmatch(line4Regex, st.lines[4]) IN
    IF Len(line4Match) # 4
    THEN Fail(st, "unexpected input for line 3: " \o st.lines[1])
    ELSE [st EXCEPT !.line4Match = line4Match, !.pc = "reading"]

exLine4(st) ==
    LET line4Match == FindStringSubmatch(line4Regex, st.lines[4]) IN
    IF Len(line4Match) # 4
    THEN Fail(st, "unexpected input for line 4: " \o st.lines[1])
    ELSE [st EXCEPT !.line4Match = line4Match, !.pc = "reading"]

exReading(st) == Field(st, st.line4Match[2], "invalid reading value", "nginx_reading", "writing")

exWriting(st) == Field(st, st.line4Match[3], "invalid writing value", "nginx_writing", "waiting")

exWaiting(st) == Field(st, st.line4Match[4], "invalid waiting value", "nginx_waiting", "return")

\* return metrics, nil
exReturn(st) == [st EXCEPT !.pc = "done", !.retMetrics = st.metrics, !.retErr = NoError]

\* extractMetrics as a function: the steps from the call to the return, with
\* `now` the reading of the time source
StepOf(st, now) ==
    CASE st.pc = "entry"    -> exEntry(st, now)
      [] st.pc = "scan"     -> exScan(st)
      [] st.pc = "count"    -> exCount(st)
      [] st.pc = "line1"    -> exLine1(st)
      [] st.pc = "active"   -> exActive(st)
      [] st.pc = "line3"    -> exLine3(st)
      [] st.pc = "accepts"  -> exAccepts(st)
      [] st.pc = "handled"  -> exHandled(st)
      [] st.pc = "requests" -> exRequests(st)
      [] st.pc = "line4"    -> exLine4(st)
      [] st.pc = "reading"  -> exReading(st)
      [] st.pc = "writing"  -> exWriting(st)
      [] st.pc = "waiting"  -> exWaiting(st)
      [] st.pc = "return"   -> exReturn(st)

RECURSIVE RunFrom(_, _)
RunFrom(st, now) == IF st.pc = "done" THEN st ELSE RunFrom(StepOf(st, now), now)

extractMetrics(content, hostname, port, now) ==
    LET st == RunFrom(CallExtract(content, hostname, port), now) IN
    [metrics |-> st.retMetrics, err |-> st.retErr]

(***************************************************************************)
(* Rendering: printMetrics encodes and prints one family after the other   *)
(* and stops at the first family the text encoder refuses.                 *)
(***************************************************************************)
\* the error of expfmt's text encoder for one family ("" for nil)
EncodeError(family) ==
    IF Len(family.Metric) = 0 THEN "MetricFamily has no metrics"
    ELSE IF family.Name = "" THEN "MetricFamily has no name"
    ELSE IF family.Type = COUNTER /\ \E i \in 1..Len(family.Metric) : family.Metric[i].Counter = Nil
         THEN "expected counter in metric"
    ELSE IF family.Type = GAUGE /\ \E i \in 1..Len(family.Metric) : family.Metric[i].Gauge = Nil
         THEN "expected gauge in metric"
    ELSE NoError

\* out: the families printed, err: the error returned
RECURSIVE printMetrics(_)
printMetrics(metrics) ==
    IF metrics = << >> THEN [out |-> << >>, err |-> NoError]
    ELSE LET e == EncodeError(Head(metrics)) IN
         IF e # NoError THEN [out |-> << >>, err |-> e]
         ELSE LET rest == printMetrics(Tail(metrics)) IN
              [out |-> << Head(metrics) >> \o rest.out, err |-> rest.err]

(***************************************************************************)
(* Inputs: the plugin configuration after checkArgs, and the bodies the    *)
(* upstream server may send.                                               *)
(***************************************************************************)
\* largest --timeout tried, in seconds
MaxTimeout == 2

\* how long the upstream server may stay silent, in seconds
MaxElapsed == 3

\* most white space characters put before or after a line
MaxPad == 2

\* most pairs of blank lines (an empty one, a white space one) put before a line
MaxBlank == 1

\* the time source's reading when the check starts, in milliseconds
StartMS == 1000

CheckStateOK == "OK"

CheckStateCritical == "Critical"

StatusOK == 200

StatusCodes == {200, 204, 404, 500}

\* nginxUrl, nginxHostname, nginxPort and plugin.timeout as checkArgs leaves them
Hosts == << << "myhost.sensu.local", "3456" >>, << "localhost", "81" >> >>

Configs ==
    { LET h == Hosts[1 + (t % 2)] IN
      [nginxUrl |-> "http://" \o h[1] \o ":" \o h[2] \o "/nginx_status",
       nginxHostname |-> h[1], nginxPort |-> h[2], timeout |-> t] :
         t \in 0..MaxTimeout }

Line1Texts ==
    { "Active connections: 33", "Active connections: 0",
      "Active connections: 9007199254740993",
      "Active connections: 18446744073709551616",
      "Active connections: 33aaa", "Active connections:" }

Line2Texts == { "server accepts handled requests", "7 7 91" }

Line3Texts ==
    { "1237 89 91", "1237  89\t91", "18446744073709551615 9007199254740995 007",
      "1 18446744073709551616 2", "huh1237 89 91", "1237 89", "1237 89 91 5",
      "18446744073709551616 5 99999999999999999999", "1 2 18446744073709551616" }

Line4Texts ==
    { "Reading: 55 Writing: 767 Waiting: 1234",
      "Reading: 0 Writing: 18014398509481986 Waiting: 9223372036854776833",
      "Reading: 1 Writing: 2 Waiting: 99999999999999999999",
      "huhReading: 55 Writing: 767 Waiting: 1234", "Reading: 55 Writing: 767",
      "Reading: x Writing: 1 Waiting: 2",
      "Reading: 18446744073709551616 Writing: 3 Waiting: 4",
      "Reading: 1 Writing: 18446744073709551616 Waiting: 99999999999999999999" }

outputLine1Ok == "Active connections: 33"

outputLine2Ok == "server accepts handled requests"

outputLine3Ok == "1237 89 91"

outputLine4Ok == "Reading: 55 Writing: 767 Waiting: 1234"

\* line lists that are decorated with white space and blank lines
BaseLines ==
    { << >>,
      << outputLine1Ok >>,
      << outputLine1Ok, outputLine2Ok, outputLine3Ok >>,
      << outputLine1Ok, outputLine2Ok, outputLine3Ok, outputLine4Ok >>,
      << outputLine1Ok, outputLine2Ok, outputLine3Ok, outputLine4Ok, outputLine3Ok >>,
      << outputLine1Ok \o "aaa", outputLine2Ok, outputLine3Ok, outputLine4Ok >>,
      << outputLine1Ok, outputLine2Ok, "huh" \o outputLine3Ok, outputLine4Ok >>,
      << outputLine1Ok, outputLine2Ok, outputLine3Ok, "huh" \o outputLine4Ok >>,
      << outputLine1Ok, "host=localhost port=81", outputLine3Ok, outputLine4Ok >> }

PadChars == " \t \f \t \f"

Pad(n) == SubSeq(PadChars, 1, n)

\* b times an empty line and a line of white space
RECURSIVE BlankLines(_, _)
BlankLines(b, eol) ==
    IF b = 0 THEN "" ELSE BlankLines(b - 1, eol) \o eol \o Pad(b + 1) \o eol

\* the lines joined by eol, each after `blank` blank lines and between `lead`
\* and `trail` white space characters; the last line ends with eol iff `last`
RECURSIVE Decorate(_, _, _, _, _, _)
Decorate(ls, lead, trail, blank, eol, last) ==
    IF ls = << >> THEN BlankLines(blank, eol)
    ELSE BlankLines(blank, eol) \o Pad(lead) \o Head(ls) \o Pad(trail)
         \o (IF Len(ls) > 1 THEN eol \o Decorate(Tail(ls), lead, trail, blank, eol, last)
             ELSE IF last THEN eol ELSE "")

Plain(ls) == Decorate(ls, 0, 0, 0, "\n", TRUE)

Payloads ==
    { Plain(<< l1, l2, l3, l4 >>) :
        l1 \in Line1Texts, l2 \in Line2Texts, l3 \in Line3Texts, l4 \in Line4Texts }
    \cup
    { Decorate(ls, d[1], d[2], d[3], d[4], d[5]) :
        ls \in BaseLines,
        d \in (0..MaxPad) \X (0..MaxPad) \X (0..MaxBlank) \X {"\n", "\r\n"} \X BOOLEAN }

(***************************************************************************)
(* The check: executeCheck -> GetMetrics -> loadData, extractMetrics;      *)
(* then printMetrics.                                                      *)
(***************************************************************************)
VARIABLES
    pc,          \* where the check is: "start", "get", "read", "loaded",
                 \* "extract", "got", "exit"
    plugin,      \* nginxUrl, nginxHostname, nginxPort, plugin.timeout
    client,      \* loadData's http.Client and the age of its request, or NoClient
    resp,        \* the status code of the response client.Get returned, 0 if none
    data,        \* loadData's result: << body >>, or Nil ...
    loadErr,     \* ... and the error
    ex,          \* the frame of extractMetrics
    metrics,     \* executeCheck's metrics ...
    err,         \* ... and err
    stdout,      \* what the process printed
    checkState,  \* the state executeCheck returned, "" before it returns
    calls,       \* the functions entered so far, in order
    steps,       \* the statement groups of extractMetrics executed so far, in order
    wall,        \* the time source: what nowFn().UnixMilli() returns now
    reads        \* the readings taken from the time source, in order

vars ==
    << pc, plugin, client, resp, data, loadErr, ex, metrics, err, stdout, checkState,
       calls, steps, wall, reads, metricHelp >>

NoClient == [Timeout |-> 0, elapsed |-> 0, live |-> FALSE]

Init ==
    /\ pc = "start"
    /\ plugin \in Configs
    /\ client = NoClient
    /\ data = Nil
    /\ loadErr = NoError
    /\ ex = IdleFrame
    /\ metrics = Nil
    /\ err = NoError
    /\ stdout = << >>
    /\ checkState = ""
    /\ calls = << >>
    /\ steps = << >>
    /\ wall = StartMS
    /\ reads = << >>
    /\ resp = 0
    /\ metricHelp = metricHelpLiteral

\* DeadlinePassed with the slip of a deadline for the headers only
DeadlinePassed_headersOnly(c) == c.Timeout > 0 /\ c.elapsed >= c.Timeout /\ pc = "get"

\* the deadline of http.Client.Timeout has passed (a Timeout of 0 sets none)
DeadlinePassed(c) == c.Timeout > 0 /\ c.elapsed >= c.Timeout

\* loadData returns (body, err): its client and response are dropped
LoadReturns(body, e) ==
    /\ data' = body
    /\ loadErr' = e
    /\ client' = NoClient
    /\ pc' = "loaded"

\* executeCheck calls GetMetrics, which calls loadData, which builds the
\* client and sends the request
StartCheck ==
    /\ pc = "start"
    /\ client' = [Timeout |-> plugin.timeout, elapsed |-> 0, live |-> TRUE]
    /\ calls' = calls \o << "GetMetrics", "loadData" >>
    /\ pc' = "get"
    /\ UNCHANGED << plugin, metricHelp, resp, data, loadErr, ex, metrics, err, stdout, checkState,
                    steps, wall, reads >>

\* a second passes while the request is in flight and its deadline is ahead
Tick ==
    /\ pc \in {"get", "read"}
    /\ client.elapsed < MaxElapsed
    /\ ~DeadlinePassed(client)
    /\ client' = [client EXCEPT !.elapsed = @ + 1]
    /\ UNCHANGED << pc, plugin, metricHelp, resp, data, loadErr, ex, metrics, err, stdout, checkState,
                    calls, steps, wall, reads >>

\* client.Get fails: no connection, DNS failure, ...
TransportError ==
    /\ pc = "get"
    /\ ~DeadlinePassed(client)
    /\ LoadReturns(Nil, "Get \"" \o plugin.nginxUrl \o "\": dial tcp: connection refused")
    /\ UNCHANGED << plugin, metricHelp, resp, ex, metrics, err, stdout, checkState, calls, steps, wall, reads >>

\* the deadline passes before the response headers arrive
TimeoutAwaitingHeaders ==
    /\ pc = "get"
    /\ DeadlinePassed(client)
    /\ LoadReturns(Nil, "Get \"" \o plugin.nginxUrl
                        \o "\": context deadline exceeded (Client.Timeout exceeded while awaiting headers)")
    /\ UNCHANGED << plugin, metricHelp, resp, ex, metrics, err, stdout, checkState, calls, steps, wall, reads >>

\* client.Get returns a response; loadData checks its status code
ResponseArrives ==
    /\ pc = "get"
    /\ ~DeadlinePassed(client)
    /\ \E StatusCode \in StatusCodes :
          /\ resp' = StatusCode
          /\ IF StatusCode # StatusOK
             THEN LoadReturns(Nil, "invalid nginx status code: " \o Itoa(StatusCode))
             ELSE /\ pc' = "read"
                  /\ UNCHANGED << client, data, loadErr >>
    /\ UNCHANGED << plugin, metricHelp, ex, metrics, err, stdout, checkState, calls, steps, wall, reads >>

\* ioutil.ReadAll returns the whole body
BodyArrives ==
    /\ pc = "read"
    /\ ~DeadlinePassed(client)
    /\ \E body \in Payloads : LoadReturns(<< body >>, NoError)
    /\ UNCHANGED << plugin, metricHelp, resp, ex, metrics, err, stdout, checkState, calls, steps, wall, reads >>

\* ioutil.ReadAll fails: the connection breaks
BodyReadError ==
    /\ pc = "read"
    /\ ~DeadlinePassed(client)
    /\ LoadReturns(Nil, "error reading body content: unexpected EOF")
    /\ UNCHANGED << plugin, metricHelp, resp, ex, metrics, err, stdout, checkState, calls, steps, wall, reads >>

\* the deadline passes while the body is read
TimeoutReadingBody ==
    /\ pc = "read"
    /\ DeadlinePassed(client)
    /\ LoadReturns(Nil, "error reading body content: context deadline exceeded "
                        \o "(Client.Timeout or context cancellation while reading body)")
    /\ UNCHANGED << plugin, metricHelp, resp, ex, metrics, err, stdout, checkState, calls, steps, wall, reads >>

\* GetMetricsLoaded with the slip of not looking at loadData's error
GetMetricsLoaded_errIgnored ==
    /\ pc = "loaded"
    /\ ex' = CallExtract(IF data = Nil THEN "" ELSE data[1], plugin.nginxHostname, plugin.nginxPort)
    /\ calls' = Append(calls, "extractMetrics")
    /\ pc' = "extract"
    /\ UNCHANGED << metrics, err >>
    /\ UNCHANGED << plugin, metricHelp, client, resp, data, loadErr, stdout, checkState, steps, wall, reads >>

\* GetMetrics after loadData: return nil, err or call extractMetrics
GetMetricsLoaded ==
    /\ pc = "loaded"
    /\ IF loadErr # NoError
       THEN /\ metrics' = Nil
            /\ err' = loadErr
            /\ pc' = "got"
            /\ UNCHANGED << ex, calls >>
       ELSE /\ ex' = CallExtract(data[1], plugin.nginxHostname, plugin.nginxPort)
            /\ calls' = Append(calls, "extractMetrics")
            /\ pc' = "extract"
            /\ UNCHANGED << metrics, err >>
    /\ UNCHANGED << plugin, metricHelp, client, resp, data, loadErr, stdout, checkState, steps, wall, reads >>

\* one step of extractMetrics; the time source moves on meanwhile
ExtractStep(at, next) ==
    /\ pc = "extract"
    /\ ex.pc = at
    /\ ex' = next
    /\ steps' = Append(steps, at)
    /\ wall' = wall + 1
    /\ UNCHANGED << pc, plugin, metricHelp, client, resp, data, loadErr, metrics, err, stdout, checkState, calls >>

\* the one statement that reads the time source
Entry == ExtractStep("entry", exEntry(ex, wall)) /\ reads' = Append(reads, wall)

\* the other statements do not read it
Step(at, next) == ExtractStep(at, next) /\ UNCHANGED reads

Scan == Step("scan", exScan(ex))

Count == Step("count", exCount(ex))

Line1 == Step("line1", exLine1(ex))

Active == Step("active", exActive(ex))

Line3 == Step("line3", exLine3(ex))

Accepts == Step("accepts", exAccepts(ex))

Handled == Step("handled", exHandled(ex))

Requests == Step("requests", exRequests(ex))

Line4 == Step("line4", exLine4(ex))

Reading == Step("reading", exReading(ex))

Writing == Step("writing", exWriting(ex))

Waiting == Step("waiting", exWaiting(ex))

Return == Step("return", exReturn(ex))

\* GetMetrics returns what extractMetrics returned
GetMetricsReturns ==
    /\ pc = "extract"
    /\ ex.pc = "done"
    /\ metrics' = ex.retMetrics
    /\ err' = ex.retErr
    /\ pc' = "got"
    /\ UNCHANGED << plugin, metricHelp, client, resp, data, loadErr, ex, stdout, checkState, calls,
                    steps, wall, reads >>

\* FinishCheck with the slip of printing before looking at the error
FinishCheck_printFirst ==
    /\ pc = "got"
    /\ LET p == printMetrics(metrics) IN
       /\ calls' = Append(calls, "printMetrics")
       /\ stdout' = stdout \o p.out
                    \o (IF err # NoError THEN << "error generating nginx metrics: " \o err >>
                        ELSE << >>)
       /\ checkState' = IF err # NoError THEN CheckStateCritical ELSE CheckStateOK
       /\ UNCHANGED err
    /\ pc' = "exit"
    /\ UNCHANGED << plugin, metricHelp, client, resp, data, loadErr, ex, metrics, steps, wall, reads >>

\* the rest of executeCheck
FinishCheck ==
    /\ pc = "got"
    /\ IF err # NoError
       THEN /\ stdout' = Append(stdout, "error generating nginx metrics: " \o err)
            /\ checkState' = CheckStateCritical
            /\ UNCHANGED << err, calls >>
       ELSE LET p == printMetrics(metrics) IN
            /\ calls' = Append(calls, "printMetrics")
            /\ err' = p.err
            /\ IF p.err # NoError
               THEN /\ stdout' = stdout \o p.out \o << "error printing metrics: " \o p.err >>
                    /\ checkState' = CheckStateCritical
               ELSE /\ stdout' = stdout \o p.out
                    /\ checkState' = CheckStateOK
    /\ pc' = "exit"
    /\ UNCHANGED << plugin, metricHelp, client, resp, data, loadErr, ex, metrics, steps, wall, reads >>

Next ==
    \/ StartCheck
    \/ Tick
    \/ TransportError
    \/ TimeoutAwaitingHeaders
    \/ ResponseArrives
    \/ BodyArrives
    \/ BodyReadError
    \/ TimeoutReadingBody
    \/ GetMetricsLoaded
    \/ Entry
    \/ Scan
    \/ Count
    \/ Line1
    \/ Active
    \/ Line3
    \/ Accepts
    \/ Handled
    \/ Requests
    \/ Line4
    \/ Reading
    \/ Writing
    \/ Waiting
    \/ Return
    \/ GetMetricsReturns
    \/ FinishCheck

Spec == Init /\ [][Next]_vars

(***************************************************************************)
(* What the properties say about a payload, read off the payload itself    *)
(* and not off the parser's locals.                                        *)
(***************************************************************************)
Blank(c) == c \in {" ", "\t", "\r", "\f"}

\* the text of a line between its first and its last non-blank character
Core(line) ==
    IF \A i \in 1..Len(line) : Blank(Ch(line, i)) THEN ""
    ELSE SubSeq(line,
                CHOOSE i \in 1..Len(line) :
                    ~Blank(Ch(line, i)) /\ \A j \in 1..(i - 1) : Blank(Ch(line, j)),
                CHOOSE i \in 1..Len(line) :
                    ~Blank(Ch(line, i)) /\ \A j \in (i + 1)..Len(line) : Blank(Ch(line, j)))

\* The non-blank lines of s, each without the white space around it: s is
\* cut at its line feeds.
RECURSIVE PayloadLines(_)
PayloadLines(s) ==
    LET cut   == IF \A i \in 1..Len(s) : Ch(s, i) # "\n" THEN Len(s) + 1
                 ELSE CHOOSE i \in 1..Len(s) :
                          Ch(s, i) = "\n" /\ \A j \in 1..(i - 1) : Ch(s, j) # "\n"
        first == Core(SubSeq(s, 1, cut - 1))
    IN  IF s = "" THEN << >>
        ELSE (IF first = "" THEN << >> ELSE << first >>)
             \o PayloadLines(SubSeq(s, cut + 1, Len(s)))

\* the payload extractMetrics was called with
Payload == ex.content

\* extractMetrics has just returned
Returned == pc = "extract" /\ ex.pc = "done"

Regex(k) == CASE k = 1 -> line1Regex [] k = 3 -> line3Regex [] k = 4 -> line4Regex

\* line k of the four lines ls matches its pattern
Matches(ls, k) == FindStringSubmatch(Regex(k), ls[k]) # << >>

\* the numbers of line k, as written
Numbers(ls, k) == Tail(FindStringSubmatch(Regex(k), ls[k]))

InRange(digits) == LessEq(Norm(digits), MaxUint64)

\* line k matches its pattern and its numbers fit 64 bits
ValidLine(ls, k) ==
    LET m == FindStringSubmatch(Regex(k), ls[k]) IN
    m # << >> /\ \A i \in 2..Len(m) : InRange(m[i])

ValidPayload(ls) == Len(ls) = 4 /\ ValidLine(ls, 1) /\ ValidLine(ls, 3) /\ ValidLine(ls, 4)

RECURSIVE MapNorm(_)
MapNorm(ds) == IF ds = << >> THEN << >> ELSE << Norm(Head(ds)) >> \o MapNorm(Tail(ds))

\* the seven integers of a valid payload: active; accepts, handled, requests;
\* reading, writing, waiting
Integers7(ls) == MapNorm(Numbers(ls, 1) \o Numbers(ls, 3) \o Numbers(ls, 4))

\* the value of a record's first sample
SampleValue(family) ==
    IF family.Metric[1].Counter # Nil THEN family.Metric[1].Counter[1]
    ELSE family.Metric[1].Gauge[1]

Last(q) == q[Len(q)]

\* every record of ms has one sample, stamped ts
StampedWith(ms, ts) ==
    \A i \in 1..Len(ms) : Len(ms[i].Metric) = 1 /\ ms[i].Metric[1].TimestampMs = ts

\* C1 as stated: a valid four line payload yields no error and 7 records whose
\* values are the seven integers of the payload, in order, all stamped with the
\* one reading of the time source.
C1_ValuesAreTheIntegers ==
    Returned =>
        LET ls == PayloadLines(Payload) IN
        ValidPayload(ls) =>
            LET ints == Integers7(ls) IN
            /\ ex.retErr = NoError
            /\ Len(ex.retMetrics) = 7
            /\ \A i \in 1..7 : SampleValue(ex.retMetrics[i]) = ints[i]
            /\ Len(reads) = 1
            /\ StampedWith(ex.retMetrics, reads[1])

\* C1 amended: a valid four line payload yields no error and 7 records, in
\* order, all stamped with the one reading of the time source; the value of a
\* record is the float64 nearest to its integer (ties to even), which is the
\* integer itself whenever the integer is at most 2^53.
C1_ValuesAreTheNearestFloats ==
    Returned =>
        LET ls == PayloadLines(Payload) IN
        ValidPayload(ls) =>
            LET ints == Integers7(ls) IN
            /\ ex.retErr = NoError
            /\ Len(ex.retMetrics) = 7
            /\ \A i \in 1..7 :
                  /\ SampleValue(ex.retMetrics[i]) = Float64(ints[i])
                  /\ LessEq(ints[i], TwoTo53) => SampleValue(ex.retMetrics[i]) = ints[i]
            /\ Len(reads) = 1
            /\ StampedWith(ex.retMetrics, reads[1])

\* a valid payload with an integer above 2^53 and one below was parsed, long
\* after the time source was read
C1_Witness ==
    /\ Returned
    /\ LET ls == PayloadLines(Payload) IN
       /\ ValidPayload(ls)
       /\ \E i \in 1..7 : Less(TwoTo53, Integers7(ls)[i])
       /\ \E i \in 1..7 : Less(Integers7(ls)[i], TwoTo53)
    /\ Len(ex.retMetrics) = 7
    /\ wall > reads[1] + 7

\* C2: a payload whose number n of non-blank lines is not 4 fails with
\* "4 output lines are expected, got n", and no line was matched against a
\* pattern before: the count is the last statement executed.
C2_WrongLineCount ==
    Returned =>
        LET n == Len(PayloadLines(Payload)) IN
        n # 4 =>
            /\ ex.retErr = "4 output lines are expected, got " \o Itoa(n)
            /\ ex.retMetrics = Nil
            /\ steps = << "entry", "scan", "count" >>

\* a payload of more than four non-blank lines, with blank lines among them,
\* was refused
C2_Witness ==
    /\ Returned
    /\ Len(PayloadLines(Payload)) > 4
    /\ Len(ScanLines(Payload)) > Len(PayloadLines(Payload))
    /\ ex.retErr # NoError

\* C3: when exactly one of the lines 1, 3 and 4 of a four line payload does
\* not match its pattern and the other two are valid, extractMetrics fails and
\* the message starts "unexpected input for line k" for that line k.
C3_NamesTheLine ==
    Returned =>
        LET ls == PayloadLines(Payload) IN
        \A k \in {1, 3, 4} :
            (/\ Len(ls) = 4
             /\ ~Matches(ls, k)
             /\ \A j \in {1, 3, 4} \ {k} : ValidLine(ls, j))
            => /\ ex.retMetrics = Nil
               /\ HasPrefixAt(ex.retErr, 1, "unexpected input for line " \o Itoa(k) \o ":")

\* line 4 alone was corrupted, and the parse failed after building 4 records
C3_Witness ==
    /\ Returned
    /\ LET ls == PayloadLines(Payload) IN
       /\ Len(ls) = 4
       /\ ValidLine(ls, 1) /\ ValidLine(ls, 3) /\ ~Matches(ls, 4)
    /\ Len(ex.metrics) = 4
    /\ ex.retErr # NoError

\* C4 as stated: when line k (1, 3 or 4) fails to match its pattern, the error
\* ends with the trimmed content of that line k.
C4_QuotesTheLine ==
    Returned =>
        LET ls == PayloadLines(Payload) IN
        \A k \in {1, 3, 4} :
            (/\ Len(ls) = 4
             /\ Last(steps) = "line" \o Itoa(k)
             /\ ex.retErr # NoError)
            => ex.retErr = "unexpected input for line " \o Itoa(k) \o ": " \o ls[k]

\* C5: all or nothing.  Whenever extractMetrics or GetMetrics returns an
\* error the list it returns is nil, also when records were built before the
\* failure; a list that is not empty comes with a nil error and has 7 records.
C5_AllOrNothing ==
    /\ Returned =>
          /\ ex.retErr # NoError => ex.retMetrics = Nil
          /\ ex.retMetrics # Nil => ex.retErr = NoError /\ Len(ex.retMetrics) = 7
    /\ pc = "got" =>
          /\ err # NoError => metrics = Nil
          /\ metrics # Nil => err = NoError /\ Len(metrics) = 7

\* GetMetrics returned an error after extractMetrics had built some records
C5_Witness ==
    /\ pc = "got"
    /\ err # NoError
    /\ Len(ex.metrics) > 0
    /\ metrics = Nil

\* the lines, each ended by a line feed
RECURSIVE Join(_)
Join(ls) == IF ls = << >> THEN "" ELSE Head(ls) \o "\n" \o Join(Tail(ls))

\* C6: white space around the lines and blank lines between them do not
\* matter: extractMetrics returns for a payload what it returns for the
\* payload's non-blank lines, trimmed.
C6_WhitespaceInsensitive ==
    Returned =>
        LET trimmed == extractMetrics(Join(PayloadLines(Payload)), ex.hostname, ex.port, reads[1])
        IN  /\ ex.retMetrics = trimmed.metrics
            /\ ex.retErr = trimmed.err

\* a payload with white space before and after its lines, blank lines and
\* carriage returns was parsed into 7 records
C6_Witness ==
    /\ Returned
    /\ \E i \in 1..Len(ScanLines(Payload)) :
          LET t == ScanLines(Payload)[i] IN
          t # "" /\ Blank(Ch(t, 1)) /\ Blank(Ch(t, Len(t))) /\ Core(t) # ""
    /\ \E i \in 1..Len(ScanLines(Payload)) : ScanLines(Payload)[i] = ""
    /\ \E i \in 1..Len(Payload) : Ch(Payload, i) = "\r"
    /\ Len(ex.retMetrics) = 7

MetricNames ==
    << "nginx_active", "nginx_accepts", "nginx_handled", "nginx_requests",
       "nginx_reading", "nginx_writing", "nginx_waiting" >>

\* C7: on success the records come in the order nginx_active, nginx_accepts,
\* nginx_handled, nginx_requests, nginx_reading, nginx_writing, nginx_waiting,
\* each name once.
C7_FixedOrder ==
    (Returned /\ ex.retErr = NoError) =>
        /\ Len(ex.retMetrics) = Len(MetricNames)
        /\ \A i \in 1..Len(MetricNames) : ex.retMetrics[i].Name = MetricNames[i]

\* a payload whose values are not in ascending or descending order was parsed
C7_Witness ==
    /\ Returned
    /\ ex.retErr = NoError
    /\ Len(ex.retMetrics) = 7
    /\ Less(SampleValue(ex.retMetrics[3]), SampleValue(ex.retMetrics[2]))
    /\ Less(SampleValue(ex.retMetrics[3]), SampleValue(ex.retMetrics[4]))

Called(f) == \E i \in 1..Len(calls) : calls[i] = f

\* C8: extractMetrics is entered only after loadData returned the body of a
\* response with status 200; when loadData fails, GetMetrics returns nil and
\* loadData's error without entering extractMetrics, and the error for a status
\* other than 200 names the status code.
C8_FetchBeforeParse ==
    /\ Called("extractMetrics") =>
          /\ resp = StatusOK
          /\ loadErr = NoError
          /\ data = << ex.content >>
          /\ \E i, j \in 1..Len(calls) :
                i < j /\ calls[i] = "loadData" /\ calls[j] = "extractMetrics"
    /\ loadErr # NoError =>
          /\ data = Nil
          /\ ~Called("extractMetrics")
          /\ ex = IdleFrame
          /\ pc \in {"got", "exit"} => metrics = Nil /\ err = loadErr
    /\ (resp # 0 /\ resp # StatusOK /\ pc # "get") =>
          loadErr = "invalid nginx status code: " \o Itoa(resp)

\* GetMetrics returned the error of a 404 response
C8_Witness ==
    /\ pc = "got"
    /\ resp = 404
    /\ err = "invalid nginx status code: 404"
    /\ metrics = Nil
    /\ calls = << "GetMetrics", "loadData" >>

InFlight == pc \in {"get", "read"}

DeadlineError(e) ==
    \E i \in 1..Len(e) : HasPrefixAt(e, i, "context deadline exceeded")

\* C9: with a timeout T > 0 the request is never in flight after T, headers
\* or body: once T has passed the next step is loadData's return of nil and an
\* error.  With T = 0 there is no deadline: the wait can go on and no deadline
\* error is returned.
C9_BoundedByTimeout ==
    /\ [](InFlight /\ plugin.timeout > 0 => client.elapsed <= plugin.timeout)
    /\ [][(InFlight /\ plugin.timeout > 0 /\ client.elapsed >= plugin.timeout)
             => (pc' = "loaded" /\ data' = Nil /\ DeadlineError(loadErr'))]_vars
    /\ [](InFlight /\ plugin.timeout = 0 /\ client.elapsed < MaxElapsed => ENABLED Tick)
    /\ [](plugin.timeout = 0 => ~DeadlineError(loadErr))

\* the deadline passed while the body of a 200 response was read, and
\* loadData returned nil and the error
C9_Witness ==
    /\ pc = "loaded"
    /\ resp = StatusOK
    /\ plugin.timeout > 0
    /\ data = Nil
    /\ DeadlineError(loadErr)

\* C10: executeCheck returns OK only if fetch, parse and rendering succeeded;
\* after a fetch or parse failure it returns the critical state, has printed
\* the error message and nothing else, and has not called printMetrics.
C10_CheckOutcome ==
    /\ pc # "exit" => stdout = << >> /\ checkState = ""
    /\ pc = "exit" =>
          /\ checkState \in {CheckStateOK, CheckStateCritical}
          /\ checkState = CheckStateOK =>
                /\ loadErr = NoError
                /\ ex.pc = "done" /\ ex.retErr = NoError
                /\ Called("printMetrics") /\ err = NoError
                /\ stdout = ex.retMetrics
          /\ loadErr # NoError =>
                /\ checkState = CheckStateCritical
                /\ stdout = << "error generating nginx metrics: " \o loadErr >>
                /\ ~Called("printMetrics")
          /\ ex.retErr # NoError =>
                /\ checkState = CheckStateCritical
                /\ stdout = << "error generating nginx metrics: " \o ex.retErr >>
                /\ ~Called("printMetrics")

\* the check ended critical after a parse that had built records
C10_Witness ==
    /\ pc = "exit"
    /\ checkState = CheckStateCritical
    /\ Len(ex.metrics) > 0
    /\ ex.retErr # NoError
    /\ Len(stdout) = 1

\* the seven fields in the order of their parsing: what the error calls them
\* and the statement that parses them
FieldWhat ==
    << "invalid number of connections", "invalid accepts value", "invalid handled value",
       "invalid requests value", "invalid reading value", "invalid writing value",
       "invalid waiting value" >>

FieldStep == << "active", "accepts", "handled", "requests", "reading", "writing", "waiting" >>

\* the line a field is on, and the first field of a line
LineOf(f) == IF f = 1 THEN 1 ELSE IF f <= 4 THEN 3 ELSE 4

FirstOf(k) == CASE k = 1 -> 1 [] k = 3 -> 2 [] k = 4 -> 5

\* what the three patterns find in the four lines ls: the match of line k at
\* index k (nothing is looked for in line 2)
Found(ls) ==
    << FindStringSubmatch(Regex(1), ls[1]), << >>,
       FindStringSubmatch(Regex(3), ls[3]), FindStringSubmatch(Regex(4), ls[4]) >>

\* the digits written for field f, when the field's line matches its pattern
CapturedIn(ms, f) == ms[LineOf(f)][f - FirstOf(LineOf(f)) + 2]

Captured(ls, f) == CapturedIn(Found(ls), f)

\* nothing before field f is wrong: the lines above are valid, the field's
\* line matches and the fields before it on the line fit 64 bits
ReachedFieldIn(ms, f) ==
    /\ \A j \in {1, 3, 4} :
          j < LineOf(f) => ms[j] # << >> /\ \A i \in 2..Len(ms[j]) : InRange(ms[j][i])
    /\ ms[LineOf(f)] # << >>
    /\ \A g \in FirstOf(LineOf(f))..(f - 1) : InRange(CapturedIn(ms, g))

ReachedField(ls, f) == ReachedFieldIn(Found(ls), f)

\* field f of the four lines is written with digits that exceed 2^64 - 1
OverflowsIn(ms, f) == ms[LineOf(f)] # << >> /\ ~InRange(CapturedIn(ms, f))

Overflows(ls, f) == OverflowsIn(Found(ls), f)

\* C11: digits that match the pattern but exceed 2^64 - 1 never yield a
\* result: extractMetrics fails, and when the field is the first thing wrong
\* the error is the field's own ("invalid ... value: ... value out of range")
\* and its statement is the last one executed.  Every value that was parsed,
\* before a failure or on success, is the integer written, within
\* [0, 2^64 - 1], and its sample is that integer's float64: nothing wraps or
\* is cut.
C11_OutOfRangeNamesTheField ==
    Returned =>
        LET ls == PayloadLines(Payload) IN
        Len(ls) = 4 =>
            LET ms == Found(ls) IN
            /\ \A f \in 1..7 :
                  /\ OverflowsIn(ms, f) => ex.retErr # NoError /\ ex.retMetrics = Nil
                  /\ (ReachedFieldIn(ms, f) /\ OverflowsIn(ms, f)) =>
                        /\ ex.retErr = FieldWhat[f] \o ": "
                                        \o NumError(CapturedIn(ms, f), "value out of range")
                        /\ Last(steps) = FieldStep[f]
                        /\ Len(ex.metrics) = f - 1
            /\ \A i \in 1..Len(ex.metrics) :
                  /\ InRange(CapturedIn(ms, i))
                  /\ SampleValue(ex.metrics[i]) = Float64(Norm(CapturedIn(ms, i)))
                  /\ LessEq(SampleValue(ex.metrics[i]), Float64(MaxUint64))

\* the writing value exceeded 2^64 - 1 after accepts = 2^64 - 1 had been
\* parsed, and the parse failed with five records built
C11_Witness ==
    /\ Returned
    /\ LET ls == PayloadLines(Payload) IN
       /\ Len(ls) = 4
       /\ ReachedField(ls, 6)
       /\ Overflows(ls, 6)
       /\ Captured(ls, 2) = MaxUint64
    /\ Len(ex.metrics) = 5
    /\ HasPrefixAt(ex.retErr, 1, "invalid writing value")

Counters == {"nginx_accepts", "nginx_handled", "nginx_requests"}

Gauges == {"nginx_active", "nginx_reading", "nginx_writing", "nginx_waiting"}

\* a record as the property wants it, for the labels the caller supplied
WellFormedRecord(r, hostname, port) ==
    /\ Len(r.Metric) = 1
    /\ Len(r.Metric[1].Label) = 2
    /\ r.Metric[1].Label[1] = [Name |-> "host", Value |-> hostname]
    /\ r.Metric[1].Label[2] = [Name |-> "port", Value |-> port]
    /\ r.Name \in Counters \cup Gauges
    /\ r.Name \in Counters =>
          r.Type = COUNTER /\ r.Metric[1].Counter # Nil /\ r.Metric[1].Gauge = Nil
    /\ r.Name \in Gauges =>
          r.Type = GAUGE /\ r.Metric[1].Gauge # Nil /\ r.Metric[1].Counter = Nil
    /\ r.Type = metricHelpLiteral[r.Name].metricType
    /\ r.Help = metricHelpLiteral[r.Name].help

\* C12: every record extractMetrics returns, and GetMetrics after it, has one
\* sample with the two labels host and port, in this order, valued with the
\* hostname and port the caller passed, whatever the payload says; its kind is
\* COUNTER for nginx_accepts, nginx_handled and nginx_requests and GAUGE for
\* the other four, and kind and help text are the table's.  The table is in
\* every state what its literal made it.
C12_RecordsFollowTheTable ==
    /\ metricHelp = metricHelpLiteral
    /\ Returned =>
          \A i \in 1..Len(ex.retMetrics) :
              WellFormedRecord(ex.retMetrics[i], plugin.nginxHostname, plugin.nginxPort)
    /\ pc \in {"got", "exit"} =>
          \A i \in 1..Len(metrics) :
              WellFormedRecord(metrics[i], plugin.nginxHostname, plugin.nginxPort)

\* seven records labelled with the caller's host and port were returned for a
\* payload that names another host and port
C12_Witness ==
    /\ Returned
    /\ Len(ex.retMetrics) = 7
    /\ LET ls == PayloadLines(Payload) IN Len(ls) = 4 /\ ls[2] = "host=localhost port=81"
    /\ plugin.nginxHostname = "myhost.sensu.local"
    /\ plugin.nginxPort = "3456"
    /\ ex.retMetrics[7].Metric[1].Label = Labels("myhost.sensu.local", "3456")

\* the statements of extractMetrics in the order of the priority
StepOrder ==
    << "entry", "scan", "count", "line1", "active", "line3", "accepts", "handled",
       "requests", "line4", "reading", "writing", "waiting", "return" >>

Pos(step) == CHOOSE i \in 1..Len(StepOrder) : StepOrder[i] = step

\* what the statement `step` would refuse in the lines ls with the matches
\* ms, whatever the statements before it say
WrongIn(ls, ms, step) ==
    CASE step = "count" -> Len(ls) # 4
      [] step \in {"line1", "line3", "line4"} ->
            Len(ls) = 4 /\ \E k \in {1, 3, 4} : step = "line" \o Itoa(k) /\ ms[k] = << >>
      [] \E f \in 1..7 : FieldStep[f] = step ->
            Len(ls) = 4 /\ \E f \in 1..7 : FieldStep[f] = step /\ OverflowsIn(ms, f)
      [] OTHER -> FALSE

Wrong(ls, step) == WrongIn(ls, IF Len(ls) = 4 THEN Found(ls) ELSE << >>, step)

\* the earliest statement that refuses something, "return" when none does
FirstWrong(ls) ==
    LET ms == IF Len(ls) = 4 THEN Found(ls) ELSE << >>
        wrong == [i \in 1..Len(StepOrder) |-> WrongIn(ls, ms, StepOrder[i])]
    IN  IF \A i \in 1..Len(StepOrder) : ~wrong[i] THEN "return"
        ELSE StepOrder[CHOOSE i \in 1..Len(StepOrder) :
                          wrong[i] /\ \A j \in 1..(i - 1) : ~wrong[j]]

\* how the error of a statement starts
ErrorStart(step) ==
    CASE step = "count" -> "4 output lines are expected, got "
      [] step \in {"line1", "line3", "line4"} ->
            "unexpected input for line " \o SubSeq(step, 5, 5) \o ": "
      [] OTHER -> FieldWhat[CHOOSE f \in 1..7 : FieldStep[f] = step] \o ": "

\* C13: the statements run in the fixed order count, line 1 and its number,
\* line 3 and accepts, handled, requests, line 4 and reading, writing,
\* waiting, and stop at the earliest one that finds something wrong: the one
\* error returned is that statement's, however many lines and fields are
\* wrong, and a line below it was not matched against its pattern.
C13_EarliestFailureWins ==
    Returned =>
        LET ls == PayloadLines(Payload)
            w  == FirstWrong(ls)
        IN  /\ steps = SubSeq(StepOrder, 1, Len(steps))
            /\ Last(steps) = w
            /\ IF w = "return" THEN ex.retErr = NoError
               ELSE ex.retMetrics = Nil /\ HasPrefixAt(ex.retErr, 1, ErrorStart(w))
            /\ Pos(w) < Pos("line1") => ex.line1Match = << >>
            /\ Pos(w) <= Pos("line3") => ex.line3Match = << >>
            /\ Pos(w) <= Pos("line4") => ex.line4Match = << >>

\* the number of line 1 exceeded 2^64 - 1, lines 3 and 4 did not match their
\* patterns, and the one error returned was the one for the number of line 1
C13_Witness ==
    /\ Returned
    /\ LET ls == PayloadLines(Payload) IN
       Wrong(ls, "active") /\ Wrong(ls, "line3") /\ Wrong(ls, "line4")
    /\ Last(steps) = "active"
    /\ HasPrefixAt(ex.retErr, 1, "invalid number of connections: ")
    /\ ex.line3Match = << >>

\* s with its n-th non-blank line replaced by the text t; the line keeps its
\* line feed, and s is returned when it has fewer non-blank lines
RECURSIVE ReplaceNonBlank(_, _, _)
ReplaceNonBlank(s, n, t) ==
    LET cut  == IF \A i \in 1..Len(s) : Ch(s, i) # "\n" THEN Len(s) + 1
                ELSE CHOOSE i \in 1..Len(s) :
                         Ch(s, i) = "\n" /\ \A j \in 1..(i - 1) : Ch(s, j) # "\n"
        raw  == SubSeq(s, 1, cut - 1)
        nl   == IF cut <= Len(s) THEN "\n" ELSE ""
        rest == SubSeq(s, cut + 1, Len(s))
    IN  IF s = "" THEN ""
        ELSE IF Core(raw) = "" THEN raw \o nl \o ReplaceNonBlank(rest, n, t)
        ELSE IF n = 1 THEN t \o nl \o rest
        ELSE raw \o nl \o ReplaceNonBlank(rest, n - 1, t)

\* texts of one non-blank line put in the place of line 2: a single character,
\* a text that looks like a line 1 out of range, words with white space around
Line2Replacements ==
    { "x", "Active connections: 18446744073709551616", " \tnot\ta header\f\r" }

\* C14: line 2 is not looked at.  For a payload of four non-blank lines,
\* putting any other non-blank text of one line in the place of the second
\* non-blank line leaves what extractMetrics returns as it is, records or
\* error, for the same labels and the same reading of the time source.
C14_Line2IsFree ==
    Returned =>
        (Len(PayloadLines(Payload)) = 4 =>
            \A t \in Line2Replacements :
                LET other == extractMetrics(ReplaceNonBlank(Payload, 2, t),
                                            ex.hostname, ex.port, reads[1])
                IN  /\ other.metrics = ex.retMetrics
                    /\ other.err = ex.retErr)

\* a payload whose second line is three numbers was parsed into 7 records,
\* and with a second line that looks like a bad line 1 it is another payload
\* of four lines
C14_Witness ==
    /\ Returned
    /\ Len(ex.retMetrics) = 7
    /\ LET ls    == PayloadLines(Payload)
           other == PayloadLines(ReplaceNonBlank(Payload, 2,
                                                 "Active connections: 18446744073709551616"))
       IN  /\ Len(ls) = 4
           /\ ls[2] = "7 7 91"
           /\ other = [ls EXCEPT ![2] = "Active connections: 18446744073709551616"]

=============================================================================
